---- MODULE Spec2Model ----
(***************************************************************************)
(* Controller (controller/services.py, controller/main.py) and storage     *)
(* node agent (storage_node/agent.py) of the distributed file store.       *)
(*                                                                         *)
(* The three database tables are the variables files, file_locations and   *)
(* storage_nodes; disk is the storage directory of every node agent.       *)
(* NodeService methods contain no await, so each is one atomic action.     *)
(* store_file and delete_file await one HTTP call per node, so each is a   *)
(* sequence of steps between which other requests are served.              *)
(***************************************************************************)
EXTENDS Integers, Sequences, FiniteSets, TLC

\* ------------------------------------------------------------------ bounds
MaxTime == 60        \* the clock stops here (seconds)
ClockStep == 5       \* the longest time between two observed instants (seconds)
MaxFiles == 1        \* file ids the upload endpoint mints
MaxLen == 1          \* longest uploaded payload (bytes)
MaxOps == 3          \* operations an agent records in its metrics

\* ------------------------------------------------------- program constants
num_replicas == 2            \* FileService.__init__
min_required_nodes == 2      \* NodeService.__init__, MIN_REQUIRED_NODES default
heartbeat_timeout == 30      \* NodeService.__init__
SweepInterval == 15          \* _heartbeat_monitor: asyncio.sleep(15)
NodeCapacity == 104857600    \* calculate_storage_capacity: 100 * 1024 * 1024
HeartbeatInterval == 15      \* heartbeat_loop
WindowSize == 100            \* record_operation
DefaultCapacity == 1073741824  \* register_storage_node: 1024 * 1024 * 1024

\* ------------------------------------------------------------------ domains
Nodes == {"n1", "n2", "n3"}
FileIds == 1..MaxFiles
Bytes == {7}
Filenames == {"a.txt"}

RECURSIVE SeqsUpTo(_)
SeqsUpTo(n) ==
    IF n = 0 THEN {<<>>}
    ELSE LET shorter == SeqsUpTo(n - 1)
         IN  shorter \cup {Append(s, b) : s \in {t \in shorter : Len(t) = n - 1}, b \in Bytes}

Contents == SeqsUpTo(MaxLen)

\* my_node_url: every agent registers under the url derived from its node id
my_node_url(node_id) == <<"http://storage-node-", node_id>>

\* a field the request body does not have: dict.get returns None
None == "None"
NoUrl == <<None, None>>      \* the same for "url", in the shape urls have

\* the values of "url" and "capacity" a registration body carries: the agent's
\* own url or another address for the same identity; the agent's capacity or
\* the endpoint's default
Urls(node_id) == {my_node_url(node_id), <<"http://10.0.0.9:8001/", node_id>>}
Capacities == {NodeCapacity, DefaultCapacity}

\* the agent that answers requests sent to a url (none when nobody listens)
AgentsAt(url) == {n \in Nodes : my_node_url(n) = url}

\* hashlib.sha256(content).hexdigest(), abstracted to a digest of the bytes
\* and the length that is computed from nothing but the content
RECURSIVE sha256(_)
sha256(content) ==
    IF content = <<>> THEN 17
    ELSE (31 * sha256(Tail(content)) + Head(content) + Len(content)) % 251

VARIABLES
    now,              \* datetime.utcnow(), in seconds
    storage_nodes,    \* table storage_nodes: node_id -> row
    files,            \* table files: file_id -> row
    file_locations,   \* table file_locations, in insertion (id) order
    disk,             \* per agent: file_id -> payload stored under storage_dir
    sidecar,          \* per agent: file_id -> content of storage_dir / {file_id}.meta
    uuids,            \* number of file ids minted by the upload endpoint
    store_op,         \* the store_file call in flight (outcomes: history of how
                      \* its calls ended so far), or idle
    delete_op,        \* the delete_file call in flight (outcomes: history of
                      \* the nodes it called and how each call ended), or idle
    monitor_wakeup,   \* when _heartbeat_monitor's sleep ends
    ret,              \* what the last completed request answered
    uploaded,         \* history: file_id -> the bytes store_file returned for
    delete_returns,   \* history: file_id -> 1 or 2 (twice or more) returns of delete_file
    metrics,          \* self.metrics of the agent my_node_id
    tasks             \* where the agent's lifespan and heartbeat_loop and the
                      \* controller's _heartbeat_monitor stand

vars == <<now, storage_nodes, files, file_locations, disk, sidecar, uuids, store_op,
          delete_op, monitor_wakeup, ret, uploaded, delete_returns, metrics, tasks>>

registry_vars == <<now, storage_nodes, monitor_wakeup>>
node_vars == <<disk, sidecar>>
catalog_vars == <<files, file_locations, uploaded, delete_returns>>
call_vars == <<uuids, store_op, delete_op>>
agent_vars == <<metrics, tasks>>

Idle == [pc |-> "idle"]

\* StorageAgent.__init__: the metrics of an agent that has served nothing
NoMetrics == [upload_ops_count |-> 0, download_ops_count |-> 0,
              delete_ops_count |-> 0, response_times |-> <<>>]

\* the agent is serving and its heartbeat_loop and the controller's
\* _heartbeat_monitor are in their sleep
Running == [lifespan |-> "serving", heartbeat_loop |-> "sleep",
            heartbeat_monitor |-> "sleep"]

\* ---------------------------------------------------------- NodeService
ActiveRows(rows) == {n \in DOMAIN rows : rows[n].is_active}

\* get_active_nodes: the rows with is_active, as dicts. The query has no
\* ORDER BY, so the rows come in whatever order the database yields them.
RECURSIVE Orderings(_)
Orderings(S) ==
    IF S = {} THEN {<<>>}
    ELSE UNION {{<<x>> \o t : t \in Orderings(S \ {x})} : x \in S}

get_active_nodes ==
    {[i \in 1..Len(o) |-> [node_id |-> o[i], url |-> storage_nodes[o[i]].url]] :
        o \in Orderings(ActiveRows(storage_nodes))}

\* register_node refreshing an existing row without overwriting url and capacity
RegisterIfAbsent(rows, node_id, url, capacity) ==
    IF node_id \in DOMAIN rows
    THEN [rows EXCEPT ![node_id] = [@ EXCEPT !.is_active = TRUE,
                                             !.last_heartbeat = now]]
    ELSE [n \in DOMAIN rows \cup {node_id} |->
            IF n = node_id
            THEN [url |-> url, capacity |-> capacity, used_space |-> 0,
                  is_active |-> TRUE, last_heartbeat |-> now]
            ELSE rows[n]]

\* register_node: upsert of the row, then commit
register_node(rows, node_id, url, capacity) ==
    IF node_id \in DOMAIN rows
    THEN [rows EXCEPT ![node_id] = [@ EXCEPT !.url = url,
                                             !.capacity = capacity,
                                             !.is_active = TRUE,
                                             !.last_heartbeat = now]]
    ELSE [n \in DOMAIN rows \cup {node_id} |->
            IF n = node_id
            THEN [url |-> url, capacity |-> capacity, used_space |-> 0,
                  is_active |-> TRUE, last_heartbeat |-> now]
            ELSE rows[n]]

\* update_node_heartbeat refreshing the timestamp and leaving is_active alone
TouchHeartbeat(rows, node_id) ==
    IF node_id \in DOMAIN rows
    THEN [rows EXCEPT ![node_id] = [@ EXCEPT !.last_heartbeat = now]]
    ELSE rows

\* update_node_heartbeat creating the row of an unknown node
HeartbeatUpsert(rows, node_id) ==
    [n \in DOMAIN rows \cup {node_id} |->
        IF n = node_id
        THEN [url |-> my_node_url(n), capacity |-> NodeCapacity, used_space |-> 0,
              is_active |-> TRUE, last_heartbeat |-> now]
        ELSE rows[n]]

\* update_node_heartbeat: the rows afterwards
update_node_heartbeat(rows, node_id) ==
    IF node_id \in DOMAIN rows
    THEN [rows EXCEPT ![node_id] = [@ EXCEPT !.last_heartbeat = now,
                                             !.is_active = TRUE]]
    ELSE rows

\* check_node_health taking a heartbeat of exactly the timeout's age as stale
StaleAtTimeout(rows) ==
    {n \in DOMAIN rows :
        rows[n].is_active /\ rows[n].last_heartbeat <= now - heartbeat_timeout}

\* check_node_health: the stale rows of the sweep
stale_nodes(rows) ==
    {n \in DOMAIN rows :
        rows[n].is_active /\ rows[n].last_heartbeat < now - heartbeat_timeout}

\* check_node_health writing is_active = False for the rows that were stale
\* one sweep interval ago, whatever their heartbeat is now
MarkInactiveLate(rows) ==
    [n \in DOMAIN rows |->
        IF rows[n].is_active
           /\ rows[n].last_heartbeat < now + SweepInterval - heartbeat_timeout
        THEN [rows[n] EXCEPT !.is_active = FALSE]
        ELSE rows[n]]

\* check_node_health marking the first stale row only (.first() for .all())
MarkFirstInactive(rows) ==
    [n \in DOMAIN rows |->
        IF stale_nodes(rows) # {} /\ n = CHOOSE m \in stale_nodes(rows) : TRUE
        THEN [rows[n] EXCEPT !.is_active = FALSE]
        ELSE rows[n]]

\* check_node_health: the rows afterwards
MarkInactive(rows) ==
    [n \in DOMAIN rows |->
        IF n \in stale_nodes(rows) THEN [rows[n] EXCEPT !.is_active = FALSE]
        ELSE rows[n]]

\* check_node_health: the report. The session is made with autoflush=False
\* (database.py line 29), so the count query of lines 337-339 is sent before
\* the is_active = False assignments of line 334 are written: it counts the
\* rows that were active before the marking
HealthReport(rows) ==
    LET active_node_count == Cardinality(ActiveRows(rows))
    IN  [active_nodes |-> active_node_count,
         min_required |-> min_required_nodes,
         stale_nodes |-> stale_nodes(rows),
         replacement_needed |-> active_node_count < min_required_nodes]

\* what the registry held for node_id before a request (history)
Before(node_id) ==
    IF node_id \notin DOMAIN storage_nodes THEN "absent"
    ELSE IF storage_nodes[node_id].is_active THEN "active" ELSE "inactive"

\* POST /nodes/register; the transaction commits
RegisterStorageNode(node_id, url, capacity) ==
    /\ storage_nodes' = register_node(storage_nodes, node_id, url, capacity)
    /\ ret' = [op |-> "register", node_id |-> node_id, status |-> 200,
               body |-> "registered", before |-> Before(node_id)]
    /\ UNCHANGED <<now, monitor_wakeup, catalog_vars, node_vars, call_vars, agent_vars>>

\* register_node, lines 304-309: the flush of a row without node_id (primary
\* key) or without url (nullable=False) raises, as does any statement when the
\* database is unreachable; the except branch rolls back and returns False
register_node_raises(node_id, url, db_up) ==
    \/ ~db_up
    \/ node_id = None
    \/ url = NoUrl

\* POST /nodes/register; the transaction is rolled back. The endpoint does not
\* look at registration_result
RegisterRolledBack(node_id, url, capacity, db_up) ==
    /\ register_node_raises(node_id, url, db_up)
    /\ ret' = [op |-> "register", node_id |-> node_id, status |-> 200,
               body |-> "registered", rolled_back |-> TRUE, db_up |-> db_up]
    /\ UNCHANGED <<registry_vars, catalog_vars, node_vars, call_vars, agent_vars>>

\* POST /nodes/heartbeat
NodeHeartbeat(node_id) ==
    /\ storage_nodes' = update_node_heartbeat(storage_nodes, node_id)
    /\ ret' = [op |-> "heartbeat", node_id |-> node_id,
               status |-> IF node_id \in DOMAIN storage_nodes THEN 200 ELSE 404,
               was_active |-> node_id \in ActiveRows(storage_nodes)]
    /\ UNCHANGED <<now, monitor_wakeup, catalog_vars, node_vars, call_vars, agent_vars>>

\* POST /nodes/heartbeat without node_id: `if not node_id` answers 400
NodeHeartbeatNoId ==
    /\ ret' = [op |-> "heartbeat", node_id |-> None, status |-> 400,
               detail |-> "node_id required"]
    /\ UNCHANGED <<registry_vars, catalog_vars, node_vars, call_vars, agent_vars>>

\* POST /nodes/heartbeat; the database is unreachable: update_node_heartbeat
\* rolls back and returns False, which the endpoint answers as a missing node
NodeHeartbeatRolledBack(node_id) ==
    /\ ret' = [op |-> "heartbeat", node_id |-> node_id, status |-> 404,
               detail |-> "Node not found", rolled_back |-> TRUE]
    /\ UNCHANGED <<registry_vars, catalog_vars, node_vars, call_vars, agent_vars>>

\* GET /nodes/health; the database is unreachable: check_node_health rolls
\* back and returns {"error": ...}, which the endpoint returns as its answer
GetNodesHealthRolledBack ==
    /\ ret' = [op |-> "health", status |-> 200, report |-> [error |-> "raised"],
               rolled_back |-> TRUE]
    /\ UNCHANGED <<registry_vars, catalog_vars, node_vars, call_vars, agent_vars>>

\* GET /nodes/health
GetNodesHealth ==
    /\ storage_nodes' = MarkInactive(storage_nodes)
    /\ ret' = [op |-> "health", status |-> 200, report |-> HealthReport(storage_nodes)]
    /\ UNCHANGED <<now, monitor_wakeup, catalog_vars, node_vars, call_vars, agent_vars>>

\* _heartbeat_monitor: one iteration, when its sleep has ended
HeartbeatMonitor ==
    /\ now = monitor_wakeup
    /\ storage_nodes' = MarkInactive(storage_nodes)
    /\ monitor_wakeup' = now + SweepInterval
    /\ UNCHANGED <<now, catalog_vars, node_vars, call_vars, ret, agent_vars>>

\* time passes, but not past the end of the monitor's sleep
Tick ==
    /\ now < MaxTime
    /\ now < monitor_wakeup
    /\ now' = IF now + ClockStep <= monitor_wakeup THEN now + ClockStep
              ELSE monitor_wakeup
    /\ UNCHANGED <<storage_nodes, monitor_wakeup, catalog_vars, node_vars,
                 call_vars, ret, agent_vars>>



\* ---------------------------------------------------------- FileService
Row(file_id, node_id) == [file_id |-> file_id, node_id |-> node_id]

\* db.query(FileLocation).filter(FileLocation.file_id == file_id).all()
LocationsOf(locs, file_id) == SelectSeq(locs, LAMBDA l : l.file_id = file_id)

\* db.query(StorageNode).filter(node_id == ..., is_active == True).first()
ActiveNode(node_id) == node_id \in ActiveRows(storage_nodes)

\* how one HTTP call to a node agent ends, as the controller sees it: "ok"
\* the agent did the work and answered 200; "failed" the agent did nothing
\* and the call ended in an error, a non-200 answer or a timeout
Outcomes == {"ok", "failed"}

\* save_file_locally keeping the payload that is already there
SaveIfAbsent(d, n, file_id, content) ==
    [d EXCEPT ![n] = [f \in DOMAIN @ \cup {file_id} |->
                        IF f \in DOMAIN @ THEN @[f] ELSE content]]

\* save_file_locally: the payload written under storage_dir / file_id
save_file_locally(d, n, file_id, content) ==
    [d EXCEPT ![n] = [f \in DOMAIN @ \cup {file_id} |->
                        IF f = file_id THEN content ELSE @[f]]]

\* save_file_locally leaving the sidecar of a file that has one
WriteMetaIfAbsent(m, n, file_id, content) ==
    [m EXCEPT ![n] = [f \in DOMAIN @ \cup {file_id} |->
                        IF f \in DOMAIN @ THEN @[f]
                        ELSE [file_id |-> file_id, size |-> Len(content),
                              checksum |-> sha256(content)]]]

\* save_file_locally, lines 122-129: the sidecar written after the payload
write_meta(m, n, file_id, content) ==
    [m EXCEPT ![n] = [f \in DOMAIN @ \cup {file_id} |->
                        IF f = file_id
                        THEN [file_id |-> file_id, size |-> Len(content),
                              checksum |-> sha256(content)]
                        ELSE @[f]]]

\* remove_file_locally ignoring the request
RemoveNothing(d, n, file_id) == d

\* remove_file_locally: the payload unlinked if it exists
remove_file_locally(d, n, file_id) ==
    [d EXCEPT ![n] = [f \in DOMAIN @ \ {file_id} |-> @[f]]]

\* remove_file_locally, lines 162-163: the sidecar unlinked if it exists
unlink_meta(m, n, file_id) ==
    [m EXCEPT ![n] = [f \in DOMAIN @ \ {file_id} |-> @[f]]]

\* load_file_locally: the payload read back; for a file that does not exist
\* the HTTPException(404) is raised inside the try block and the except branch
\* raises HTTPException(500) in its place
load_file_locally(d, n, file_id) ==
    IF file_id \in DOMAIN d[n]
    THEN [status |-> 200, content |-> d[n][file_id]]
    ELSE [status |-> 500]

\* _store_file_on_node / _delete_file_from_node: response.status_code == 200,
\* False on any exception
CallSucceeded(url, outcome) == outcome = "ok" /\ AgentsAt(url) # {}

\* POST /store/{file_id} on the agent behind url
AfterStoreCall(url, file_id, content, outcome) ==
    IF CallSucceeded(url, outcome)
    THEN save_file_locally(disk, CHOOSE n \in AgentsAt(url) : TRUE, file_id, content)
    ELSE disk

\* DELETE /delete/{file_id} on the agent behind url
AfterDeleteCall(url, file_id, outcome) ==
    IF CallSucceeded(url, outcome)
    THEN remove_file_locally(disk, CHOOSE n \in AgentsAt(url) : TRUE, file_id)
    ELSE disk

\* the sidecars after POST /store/{file_id} on the agent behind url
MetaAfterStoreCall(url, file_id, content, outcome) ==
    IF CallSucceeded(url, outcome)
    THEN write_meta(sidecar, CHOOSE n \in AgentsAt(url) : TRUE, file_id, content)
    ELSE sidecar

\* the sidecars after DELETE /delete/{file_id} on the agent behind url
MetaAfterDeleteCall(url, file_id, outcome) ==
    IF CallSucceeded(url, outcome)
    THEN unlink_meta(sidecar, CHOOSE n \in AgentsAt(url) : TRUE, file_id)
    ELSE sidecar

\* ---------------------------------------------------- storage node agent
\* the agent whose endpoints are called directly
my_node_id == "n1"

\* the file ids a request may name: those the upload endpoint mints and one
\* that was minted before
OldFile == 0
RequestIds == FileIds \cup {OldFile}

\* how the file operations of a handler end: "ok" none raises; "payload_error"
\* the operation on storage_dir / file_id raises and nothing is changed;
\* "meta_error" the operation on the sidecar raises after the payload is done
IoOutcomes == {"ok", "payload_error", "meta_error"}

\* what (time.time() - start_time) * 1000 comes to, in ms: nothing when the
\* clock has not moved, else a positive time
ElapsedMs == {0, 4}

\* record_operation keeping the oldest samples of the window
OldestSamples(response_times) ==
    IF Len(response_times) > WindowSize
    THEN SubSeq(response_times, 1, WindowSize)
    ELSE response_times

\* record_operation, lines 198-199: response_times[-100:]
LastSamples(response_times) ==
    IF Len(response_times) > WindowSize
    THEN SubSeq(response_times, Len(response_times) - WindowSize + 1,
                Len(response_times))
    ELSE response_times

\* record_operation, lines 187-192: the counter of the operation type
CountOperation(m, operation_type) ==
    IF operation_type = "upload" THEN [m EXCEPT !.upload_ops_count = @ + 1]
    ELSE IF operation_type = "download" THEN [m EXCEPT !.download_ops_count = @ + 1]
    ELSE IF operation_type = "delete" THEN [m EXCEPT !.delete_ops_count = @ + 1]
    ELSE m

\* record_operation: self.metrics afterwards
record_operation(m, operation_type, response_time_ms) ==
    LET counted == CountOperation(m, operation_type)
    IN  IF response_time_ms > 0
        THEN [counted EXCEPT
                !.response_times = LastSamples(Append(@, response_time_ms))]
        ELSE counted

\* the operations the agent has counted
OpsCount(m) == m.upload_ops_count + m.download_ops_count + m.delete_ops_count

\* a handler of the agent that answers 200 records its operation
Recorded(operation_type, answered) ==
    IF answered
    THEN /\ OpsCount(metrics) < MaxOps
         /\ \E response_time \in ElapsedMs :
               metrics' = record_operation(metrics, operation_type, response_time)
    ELSE UNCHANGED metrics

\* POST /store/{file_id} on the agent: save_file_locally and the answer
StoreFileEndpoint(file_id, content, io) ==
    /\ disk' = IF io = "payload_error" THEN disk
               ELSE save_file_locally(disk, my_node_id, file_id, content)
    /\ sidecar' = IF io = "ok" THEN write_meta(sidecar, my_node_id, file_id, content)
                  ELSE sidecar
    /\ ret' = [op |-> "store_endpoint", file_id |-> file_id,
               status |-> IF io = "ok" THEN 200 ELSE 500,
               saved |-> io = "ok", content |-> content,
               previous |-> load_file_locally(disk, my_node_id, file_id)]
    /\ Recorded("upload", io = "ok")
    /\ UNCHANGED <<registry_vars, catalog_vars, call_vars, tasks>>

\* GET /retrieve/{file_id} on the agent: the HTTPException of
\* load_file_locally is raised again as it is
RetrieveFileEndpoint(file_id) ==
    /\ ret' = [op |-> "retrieve_endpoint", file_id |-> file_id,
               status |-> load_file_locally(disk, my_node_id, file_id).status,
               response |-> load_file_locally(disk, my_node_id, file_id)]
    /\ Recorded("download", load_file_locally(disk, my_node_id, file_id).status = 200)
    /\ UNCHANGED <<registry_vars, catalog_vars, node_vars, call_vars, tasks>>

\* DELETE /delete/{file_id} on the agent: remove_file_locally and the answer;
\* an unlink is tried, and so can raise, only for a file that exists
DeleteFileEndpoint(file_id, io) ==
    /\ io = "payload_error" => file_id \in DOMAIN disk[my_node_id]
    /\ io = "meta_error" => file_id \in DOMAIN sidecar[my_node_id]
    /\ disk' = IF io = "payload_error" THEN disk
               ELSE remove_file_locally(disk, my_node_id, file_id)
    /\ sidecar' = IF io = "ok" THEN unlink_meta(sidecar, my_node_id, file_id)
                  ELSE sidecar
    /\ ret' = [op |-> "delete_endpoint", file_id |-> file_id,
               status |-> IF io = "ok" THEN 200 ELSE 500,
               removed |-> io = "ok",
               had |-> file_id \in DOMAIN disk[my_node_id] \cup DOMAIN sidecar[my_node_id]]
    /\ Recorded("delete", io = "ok")
    /\ UNCHANGED <<registry_vars, catalog_vars, call_vars, tasks>>

\* GET /files on the agent: get_file_list reads every *.meta file of
\* storage_dir and returns what they hold, one entry per sidecar
get_file_list(m, n) == [f \in DOMAIN m[n] |-> m[n][f]]

ListFilesEndpoint ==
    /\ ret' = [op |-> "list_endpoint", status |-> 200,
               files |-> get_file_list(sidecar, my_node_id),
               count |-> Cardinality(DOMAIN get_file_list(sidecar, my_node_id))]
    /\ UNCHANGED <<registry_vars, catalog_vars, node_vars, call_vars, agent_vars>>

\* the decimal digits of a size
RECURSIVE Digits(_)
Digits(n) == IF n < 10 THEN 1 ELSE 1 + Digits(n \div 10)

\* os.path.getsize of a sidecar: the text json.dump writes, that is 41
\* characters of keys and punctuation, the file id (a uuid4 string of 36
\* characters), the digits of the size and the 64 hex digits of the checksum
getsize_meta(meta) == 41 + 36 + Digits(meta.size) + 64

\* the sum of the sizes of the files of a directory, sizes[f] being the size
\* of file f
RECURSIVE TotalSize(_)
TotalSize(sizes) ==
    IF DOMAIN sizes = {} THEN 0
    ELSE LET f == CHOOSE g \in DOMAIN sizes : TRUE
         IN  sizes[f] + TotalSize([g \in DOMAIN sizes \ {f} |-> sizes[g]])

\* os.path.getsize of every payload of node n
PayloadSizes(d, n) == [f \in DOMAIN d[n] |-> Len(d[n][f])]

\* calculate_used_space: os.walk(storage_dir) visits every file of the
\* directory, payloads and sidecars alike
calculate_used_space(d, m, n) ==
    TotalSize(PayloadSizes(d, n))
    + TotalSize([f \in DOMAIN m[n] |-> getsize_meta(m[n][f])])

\* GET /health on the agent
HealthStatus ==
    /\ ret' = [op |-> "health_endpoint", status |-> "healthy",
               used_space |-> calculate_used_space(disk, sidecar, my_node_id),
               capacity |-> NodeCapacity]
    /\ UNCHANGED <<registry_vars, catalog_vars, node_vars, call_vars, agent_vars>>

\* the types and times record_operation is called with
OperationTypes == {"upload", "download", "delete", "list"}
SampleTimes == {-1, 0, 7}

\* record_operation called on the agent; ret counts the calls
RecordOperation(operation_type, response_time_ms) ==
    /\ ret.calls < MaxOps
    /\ metrics' = record_operation(metrics, operation_type, response_time_ms)
    /\ ret' = [op |-> "record_operation", operation_type |-> operation_type,
               response_time_ms |-> response_time_ms, before |-> metrics,
               calls |-> ret.calls + 1]
    /\ UNCHANGED <<registry_vars, catalog_vars, node_vars, call_vars, tasks>>

\* the agent has been started and has not registered yet; the controller's
\* monitor is in its sleep
Starting == [lifespan |-> "starting", heartbeat_loop |-> "none",
             heartbeat_monitor |-> "sleep"]

\* a call to the controller letting its failure out to the caller
RaisesWhenUnreachable(reachable) == ~reachable

\* register_with_controller, lines 52-75, and send_heartbeat, lines 79-101:
\* the whole call is inside try / except Exception, which returns False
call_raises(reachable) == FALSE

\* the except branch ending the task
TaskEnds == "stopped"

\* heartbeat_loop, lines 280-282, and _heartbeat_monitor, lines 390-392: the
\* except branch sleeps 30 s and the loop goes on
AfterRaise == "backoff"

\* lifespan up to its yield: register_with_controller once, then the
\* heartbeat task is created; reachable says whether the controller answers
AgentStartup(reachable) ==
    /\ tasks.lifespan = "starting"
    /\ storage_nodes' = IF reachable
                        THEN register_node(storage_nodes, my_node_id,
                                           my_node_url(my_node_id), NodeCapacity)
                        ELSE storage_nodes
    /\ tasks' = IF call_raises(reachable)
                THEN [tasks EXCEPT !.lifespan = "failed"]
                ELSE [tasks EXCEPT !.lifespan = "serving", !.heartbeat_loop = "sleep"]
    /\ ret' = [op |-> "register_with_controller", reachable |-> reachable,
               result |-> reachable]
    /\ UNCHANGED <<now, monitor_wakeup, catalog_vars, node_vars, call_vars, metrics>>

\* heartbeat_loop: asyncio.sleep(15) ends
HeartbeatWake ==
    /\ tasks.heartbeat_loop = "sleep"
    /\ tasks' = [tasks EXCEPT !.heartbeat_loop = "send"]
    /\ UNCHANGED <<registry_vars, catalog_vars, node_vars, call_vars, metrics, ret>>

\* heartbeat_loop: send_heartbeat, then send_metrics_to_controller, which
\* posts to a path the controller does not serve. The heartbeat of a node the
\* registry does not know is answered 404 and only logged. fault says
\* whether something else raises in the iteration, before the heartbeat
IterationFaults == {"none", "raises"}

HeartbeatIteration(reachable, fault) ==
    /\ tasks.heartbeat_loop = "send"
    /\ storage_nodes' = IF reachable /\ fault = "none"
                        THEN update_node_heartbeat(storage_nodes, my_node_id)
                        ELSE storage_nodes
    /\ tasks' = [tasks EXCEPT !.heartbeat_loop =
                    IF fault = "raises" \/ call_raises(reachable)
                    THEN AfterRaise ELSE "sleep"]
    /\ ret' = [op |-> "heartbeat_loop", reachable |-> reachable, fault |-> fault,
               result |-> /\ reachable
                          /\ fault = "none"
                          /\ my_node_id \in DOMAIN storage_nodes]
    /\ UNCHANGED <<now, monitor_wakeup, catalog_vars, node_vars, call_vars, metrics>>

\* heartbeat_loop: asyncio.sleep(30) of the except branch ends
HeartbeatBackoff ==
    /\ tasks.heartbeat_loop = "backoff"
    /\ tasks' = [tasks EXCEPT !.heartbeat_loop = "send"]
    /\ UNCHANGED <<registry_vars, catalog_vars, node_vars, call_vars, metrics, ret>>

\* _heartbeat_monitor: asyncio.sleep(15) ends
MonitorWake ==
    /\ tasks.heartbeat_monitor = "sleep"
    /\ tasks' = [tasks EXCEPT !.heartbeat_monitor = "check"]
    /\ UNCHANGED <<registry_vars, catalog_vars, node_vars, call_vars, metrics, ret>>

\* _heartbeat_monitor: check_node_health; fault says whether the iteration
\* raises
MonitorIteration(fault) ==
    /\ tasks.heartbeat_monitor = "check"
    /\ storage_nodes' = IF fault = "none" THEN MarkInactive(storage_nodes)
                        ELSE storage_nodes
    /\ tasks' = [tasks EXCEPT !.heartbeat_monitor =
                    IF fault = "raises" THEN AfterRaise ELSE "sleep"]
    /\ ret' = [op |-> "heartbeat_monitor", fault |-> fault]
    /\ UNCHANGED <<now, monitor_wakeup, catalog_vars, node_vars, call_vars, metrics>>

\* _heartbeat_monitor: asyncio.sleep(30) of the except branch ends
MonitorBackoff ==
    /\ tasks.heartbeat_monitor = "backoff"
    /\ tasks' = [tasks EXCEPT !.heartbeat_monitor = "check"]
    /\ UNCHANGED <<registry_vars, catalog_vars, node_vars, call_vars, metrics, ret>>

\* store_file recording a location for every target, accepted or not
CommitStoreEveryTarget(op, successful_stores) ==
    /\ files' = [f \in DOMAIN files \cup {op.file_id} |->
                    IF f = op.file_id
                    THEN [filename |-> op.filename, size |-> Len(op.content),
                          checksum |-> sha256(op.content), is_deleted |-> FALSE]
                    ELSE files[f]]
    /\ file_locations' = file_locations \o
            [k \in 1..Len(op.target_nodes) |->
                [file_id |-> op.file_id, node_id |-> op.target_nodes[k].node_id]]
    /\ uploaded' = [f \in DOMAIN uploaded \cup {op.file_id} |->
                        IF f = op.file_id THEN op.content ELSE uploaded[f]]
    /\ UNCHANGED delete_returns

\* store_file, lines 56-74: the FileRecord and one PlacementRecord per
\* successful node, added and committed in one transaction
CommitStore(op, successful_stores) ==
    /\ files' = [f \in DOMAIN files \cup {op.file_id} |->
                    IF f = op.file_id
                    THEN [filename |-> op.filename, size |-> Len(op.content),
                          checksum |-> sha256(op.content), is_deleted |-> FALSE]
                    ELSE files[f]]
    /\ file_locations' = file_locations \o
            [k \in 1..Len(successful_stores) |-> Row(op.file_id, successful_stores[k])]
    /\ uploaded' = [f \in DOMAIN uploaded \cup {op.file_id} |->
                        IF f = op.file_id THEN op.content ELSE uploaded[f]]
    /\ UNCHANGED delete_returns

\* store_file sending the file to every active node
TargetEveryNode(nodes_available) == nodes_available

\* store_file, line 37: nodes_available[: self.num_replicas]
target_nodes(nodes_available) ==
    SubSeq(nodes_available, 1,
           IF Len(nodes_available) < num_replicas THEN Len(nodes_available)
           ELSE num_replicas)

\* the fail-fast test refusing only when no node at all is active
InsufficientWhenEmpty(nodes_available) == nodes_available = <<>>

\* the fail-fast test off by one
InsufficientOffByOne(nodes_available) == Len(nodes_available) < num_replicas - 1

\* store_file, line 31: the fail-fast test
Insufficient(nodes_available) == Len(nodes_available) < num_replicas

\* POST /files/upload up to the first await of store_file: mint the id,
\* read the active nodes, then fail fast or send the first store call
UploadBegin(filename, content) ==
    /\ store_op.pc = "idle"
    /\ uuids < MaxFiles
    /\ uuids' = uuids + 1
    /\ \E nodes_available \in get_active_nodes :
        IF Insufficient(nodes_available)
        THEN /\ ret' = [op |-> "store_file", file_id |-> uuids + 1, status |-> "raised",
                        detail |-> "Need nodes"]
             /\ UNCHANGED store_op
        ELSE /\ store_op' = [pc |-> "store", file_id |-> uuids + 1,
                             filename |-> filename, content |-> content,
                             target_nodes |-> target_nodes(nodes_available),
                             i |-> 1, successful_stores |-> <<>>,
                             outcomes |-> <<>>]
             /\ UNCHANGED ret
    /\ UNCHANGED <<registry_vars, catalog_vars, node_vars, delete_op, agent_vars>>

\* the success list emptied by a call that fails
CollectResetOnFailure(successful_stores, node_info, outcome) ==
    IF CallSucceeded(node_info.url, outcome)
    THEN Append(successful_stores, node_info.node_id)
    ELSE <<>>

\* the success list without the test of store_worked
CollectAlways(successful_stores, node_info, outcome) ==
    Append(successful_stores, node_info.node_id)

\* store_file, lines 43-47: the success list after the call to node_info
Collect(successful_stores, node_info, outcome) ==
    IF CallSucceeded(node_info.url, outcome)
    THEN Append(successful_stores, node_info.node_id)
    ELSE successful_stores

\* store_file without the test of line 53
StoredNever(successful_stores) == FALSE

\* store_file insisting on a full set of replicas
StoredTooFew(successful_stores) == Len(successful_stores) < num_replicas

\* store_file, line 53: `if not successful_stores:`
StoredNowhere(successful_stores) == successful_stores = <<>>

\* the store call in flight ends; store_file goes on to the next target, or
\* past the loop to the commit and the return
StoreOnNode(outcome) ==
    /\ store_op.pc = "store"
    /\ LET node_info == store_op.target_nodes[store_op.i]
           successful_stores == Collect(store_op.successful_stores, node_info, outcome)
       IN  /\ disk' = AfterStoreCall(node_info.url, store_op.file_id,
                                     store_op.content, outcome)
           /\ sidecar' = MetaAfterStoreCall(node_info.url, store_op.file_id,
                                            store_op.content, outcome)
           /\ IF store_op.i < Len(store_op.target_nodes)
              THEN /\ store_op' = [store_op EXCEPT !.i = @ + 1,
                                       !.successful_stores = successful_stores,
                                       !.outcomes = Append(@, outcome)]
                   /\ UNCHANGED <<catalog_vars, ret>>
              ELSE /\ store_op' = Idle
                   /\ IF StoredNowhere(successful_stores)
                      THEN /\ ret' = [op |-> "store_file", file_id |-> store_op.file_id,
                                      status |-> "raised",
                                      detail |-> "Couldn't store file anywhere!"]
                           /\ UNCHANGED catalog_vars
                      ELSE /\ CommitStore(store_op, successful_stores)
                           /\ ret' = [op |-> "store_file", file_id |-> store_op.file_id,
                                      status |-> "returned",
                                      nodes |-> successful_stores,
                                      checksum |-> sha256(store_op.content)]
    /\ UNCHANGED <<registry_vars, uuids, delete_op, agent_vars>>

\* _retrieve_file_from_node: response.content on a 200, else None; answering
\* are the agents that answer requests at the moment
retrieve_file_from_node(url, file_id, answering) ==
    LET holders == {n \in AgentsAt(url) \cap answering : file_id \in DOMAIN disk[n]}
    IN  IF holders = {} THEN [got |-> FALSE]
        ELSE [got |-> TRUE, content |-> disk[CHOOSE n \in holders : TRUE][file_id]]

\* retrieve_file, line 126: `if content:`
Truthy(response) == response.got /\ response.content # <<>>

\* retrieve_file, lines 111-139: the first location whose node is active and
\* whose agent returns content that passes the test of line 126
RECURSIVE TryLocations(_, _, _)
TryLocations(locs, file_id, answering) ==
    IF locs = <<>> THEN [got |-> FALSE]
    ELSE LET node_id == Head(locs).node_id
             response == IF ActiveNode(node_id)
                         THEN retrieve_file_from_node(storage_nodes[node_id].url,
                                                      file_id, answering)
                         ELSE [got |-> FALSE]
         IN  IF Truthy(response) THEN response
             ELSE TryLocations(Tail(locs), file_id, answering)

\* retrieve_file without the is_deleted filter
retrieve_file_ignoring_flag(file_id, answering) ==
    IF file_id \notin DOMAIN files
    THEN [found |-> FALSE]
    ELSE LET hit == TryLocations(LocationsOf(file_locations, file_id), file_id, answering)
         IN  IF hit.got
             THEN [found |-> TRUE, filename |-> files[file_id].filename,
                   content |-> hit.content, size |-> files[file_id].size,
                   checksum |-> files[file_id].checksum]
             ELSE [found |-> FALSE]

\* retrieve_file: None, or the dict with the content
retrieve_file(file_id, answering) ==
    IF file_id \notin DOMAIN files \/ files[file_id].is_deleted
    THEN [found |-> FALSE]
    ELSE LET hit == TryLocations(LocationsOf(file_locations, file_id), file_id, answering)
         IN  IF hit.got
             THEN [found |-> TRUE, filename |-> files[file_id].filename,
                   content |-> hit.content, size |-> files[file_id].size,
                   checksum |-> files[file_id].checksum]
             ELSE [found |-> FALSE]

\* GET /files/{file_id}: the 404 raised inside the try block is caught by the
\* handler's own `except Exception` and answered as a 500
DownloadFile(file_id, answering) ==
    /\ ret' = [op |-> "retrieve_file", file_id |-> file_id,
               status |-> IF retrieve_file(file_id, answering).found THEN 200 ELSE 500,
               value |-> retrieve_file(file_id, answering)]
    /\ UNCHANGED <<registry_vars, catalog_vars, node_vars, call_vars, agent_vars>>

\* list_files: the ids of the rows with is_deleted == False
list_files == {f \in DOMAIN files : ~files[f].is_deleted}

\* GET /files
ListAllFiles ==
    /\ ret' = [op |-> "list_files", status |-> 200, files |-> list_files]
    /\ UNCHANGED <<registry_vars, catalog_vars, node_vars, call_vars, agent_vars>>

\* delete_file, lines 164-175: from position j of file_locations, the first
\* location whose node is active now, or one past the end
RECURSIVE NextCall(_, _)
NextCall(locs, j) ==
    IF j > Len(locs) THEN j
    ELSE IF ActiveNode(locs[j].node_id) THEN j
    ELSE NextCall(locs, j + 1)

\* delete_file dropping the location rows of the file it flags
CommitDeletePurges(file_id) ==
    /\ files' = [files EXCEPT ![file_id] = [@ EXCEPT !.is_deleted = TRUE]]
    /\ file_locations' = SelectSeq(file_locations, LAMBDA l : l.file_id # file_id)
    /\ UNCHANGED uploaded

\* delete_file flipping the flag instead of setting it
CommitDeleteToggle(file_id) ==
    /\ files' = [files EXCEPT ![file_id] = [@ EXCEPT !.is_deleted = ~@]]
    /\ UNCHANGED <<file_locations, uploaded>>

\* delete_file, lines 155 and 184: the flag set on the session's row is
\* written by db.commit()
CommitDelete(file_id) ==
    /\ files' = [files EXCEPT ![file_id] = [@ EXCEPT !.is_deleted = TRUE]]
    /\ UNCHANGED <<file_locations, uploaded>>

\* the lookup of delete_file filtered on is_deleted as retrieve_file's is
FindLiveFile(file_id) == file_id \in DOMAIN files /\ ~files[file_id].is_deleted

\* delete_file, lines 148-153: the row is looked up by file_id alone
FindFile(file_id) == file_id \in DOMAIN files

\* delete_file, lines 184-185: commit and return; remove_file answers 200
DeleteReturns(file_id, deleted_nodes, outcomes) ==
    /\ CommitDelete(file_id)
    /\ delete_returns' = [f \in DOMAIN delete_returns \cup {file_id} |->
                            IF f # file_id THEN delete_returns[f]
                            ELSE IF f \in DOMAIN delete_returns THEN 2 ELSE 1]
    /\ delete_op' = Idle
    /\ ret' = [op |-> "delete_file", file_id |-> file_id, status |-> "returned",
               http_status |-> 200, nodes_cleaned |-> deleted_nodes,
               outcomes |-> outcomes]

\* DELETE /files/{file_id} up to the first await of delete_file; whatever
\* delete_file raises, remove_file answers as a 500
RemoveFileBegin(file_id) ==
    /\ delete_op.pc = "idle"
    /\ IF ~FindFile(file_id)
       THEN /\ ret' = [op |-> "delete_file", file_id |-> file_id, status |-> "raised",
                       http_status |-> 500, detail |-> "File not found"]
            /\ UNCHANGED <<catalog_vars, delete_op>>
       ELSE LET locs == LocationsOf(file_locations, file_id)
                j == NextCall(locs, 1)
            IN  IF j > Len(locs)
                THEN DeleteReturns(file_id, <<>>, <<>>)
                ELSE /\ delete_op' = [pc |-> "delete", file_id |-> file_id,
                                      file_locations |-> locs, i |-> j,
                                      url |-> storage_nodes[locs[j].node_id].url,
                                      deleted_nodes |-> <<>>, outcomes |-> <<>>]
                     /\ UNCHANGED <<catalog_vars, ret>>
    /\ UNCHANGED <<registry_vars, node_vars, uuids, store_op, agent_vars>>

\* the cleaned list without the test of success
CleanedAlways(deleted_nodes, node_id, url, outcome) == Append(deleted_nodes, node_id)

\* delete_file, lines 176-178: the cleaned list after the call to a node
Cleaned(deleted_nodes, node_id, url, outcome) ==
    IF CallSucceeded(url, outcome) THEN Append(deleted_nodes, node_id)
    ELSE deleted_nodes

\* the delete call in flight ends; delete_file goes on to the next location
\* whose node is active, or past the loop to the commit and the return
DeleteOnNode(outcome) ==
    /\ delete_op.pc = "delete"
    /\ LET locs == delete_op.file_locations
           deleted_nodes == Cleaned(delete_op.deleted_nodes, locs[delete_op.i].node_id,
                                    delete_op.url, outcome)
           outcomes == Append(delete_op.outcomes, <<locs[delete_op.i].node_id, outcome>>)
           j == NextCall(locs, delete_op.i + 1)
       IN  /\ disk' = AfterDeleteCall(delete_op.url, delete_op.file_id, outcome)
           /\ sidecar' = MetaAfterDeleteCall(delete_op.url, delete_op.file_id, outcome)
           /\ IF j > Len(locs)
              THEN DeleteReturns(delete_op.file_id, deleted_nodes, outcomes)
              ELSE /\ delete_op' = [delete_op EXCEPT !.i = j,
                                        !.url = storage_nodes[locs[j].node_id].url,
                                        !.deleted_nodes = deleted_nodes,
                                        !.outcomes = outcomes]
                   /\ UNCHANGED <<catalog_vars, ret>>
    /\ UNCHANGED <<registry_vars, uuids, store_op, agent_vars>>

\* store_file keeping the location rows when the commit fails
RollbackKeepsLocations(op, successful_stores) ==
    /\ file_locations' = file_locations \o
            [k \in 1..Len(successful_stores) |-> Row(op.file_id, successful_stores[k])]
    /\ UNCHANGED <<files, uploaded, delete_returns>>

\* store_file, lines 75-78: db_session.rollback() discards the flushed
\* FileRecord and the pending PlacementRecords together
RollbackStore(op, successful_stores) == UNCHANGED catalog_vars

\* the last store call ends and db_session.commit() raises: store_file rolls
\* back and re-raises; the copies already written stay on the nodes
StoreRolledBack(outcome) ==
    /\ store_op.pc = "store"
    /\ store_op.i = Len(store_op.target_nodes)
    /\ LET node_info == store_op.target_nodes[store_op.i]
           successful_stores == Collect(store_op.successful_stores, node_info, outcome)
       IN  /\ ~StoredNowhere(successful_stores)
           /\ disk' = AfterStoreCall(node_info.url, store_op.file_id,
                                     store_op.content, outcome)
           /\ sidecar' = MetaAfterStoreCall(node_info.url, store_op.file_id,
                                            store_op.content, outcome)
           /\ RollbackStore(store_op, successful_stores)
           /\ store_op' = Idle
           /\ ret' = [op |-> "store_file", file_id |-> store_op.file_id,
                      status |-> "raised", detail |-> "commit failed",
                      nodes |-> successful_stores]
    /\ UNCHANGED <<registry_vars, uuids, delete_op, agent_vars>>

\* delete_file, lines 184-187: db.commit() raises, nothing catches it inside
\* delete_file, db.close() drops the pending flag; remove_file answers 500
DeleteRaises(file_id, outcomes) ==
    /\ UNCHANGED catalog_vars
    /\ delete_op' = Idle
    /\ ret' = [op |-> "delete_file", file_id |-> file_id, status |-> "raised",
               http_status |-> 500, detail |-> "commit failed",
               outcomes |-> outcomes]

\* DELETE /files/{file_id} when no location has an active node and the
\* commit fails
RemoveFileRolledBack(file_id) ==
    /\ delete_op.pc = "idle"
    /\ FindFile(file_id)
    /\ LET locs == LocationsOf(file_locations, file_id)
       IN  NextCall(locs, 1) > Len(locs)
    /\ DeleteRaises(file_id, <<>>)
    /\ UNCHANGED <<registry_vars, node_vars, uuids, store_op, agent_vars>>

\* the last delete call ends and the commit fails
DeleteRolledBack(outcome) ==
    /\ delete_op.pc = "delete"
    /\ LET locs == delete_op.file_locations
           outcomes == Append(delete_op.outcomes, <<locs[delete_op.i].node_id, outcome>>)
       IN  /\ NextCall(locs, delete_op.i + 1) > Len(locs)
           /\ disk' = AfterDeleteCall(delete_op.url, delete_op.file_id, outcome)
           /\ sidecar' = MetaAfterDeleteCall(delete_op.url, delete_op.file_id, outcome)
           /\ DeleteRaises(delete_op.file_id, outcomes)
    /\ UNCHANGED <<registry_vars, uuids, store_op, agent_vars>>

\* ------------------------------------------------------- specifications
Init ==
    /\ now = 0
    /\ storage_nodes = <<>>
    /\ files = <<>>
    /\ file_locations = <<>>
    /\ disk = [n \in Nodes |-> <<>>]
    /\ sidecar = [n \in Nodes |-> <<>>]
    /\ uuids = 0
    /\ store_op = Idle
    /\ delete_op = Idle
    /\ monitor_wakeup = SweepInterval
    /\ ret = [op |-> "none"]
    /\ uploaded = <<>>
    /\ delete_returns = <<>>
    /\ metrics = NoMetrics
    /\ tasks = Running

\* the registry and the clock: registrations, heartbeats, sweeps
NextRegistry ==
    \/ \E n \in Nodes : RegisterStorageNode(n, my_node_url(n), NodeCapacity)
    \/ \E n \in Nodes : NodeHeartbeat(n)
    \/ GetNodesHealth
    \/ HeartbeatMonitor
    \/ Tick

SpecRegistry == Init /\ [][NextRegistry]_vars

\* uploads while the nodes register with one capacity or another
NextPlacement ==
    \/ \E n \in Nodes, capacity \in Capacities :
          RegisterStorageNode(n, my_node_url(n), capacity)
    \/ \E filename \in Filenames, content \in Contents : UploadBegin(filename, content)
    \/ \E outcome \in Outcomes : StoreOnNode(outcome)

\* one storage node agent, its endpoints called with every id and payload
NextAgent ==
    \/ \E file_id \in RequestIds, content \in Contents, io \in IoOutcomes :
          StoreFileEndpoint(file_id, content, io)
    \/ \E file_id \in RequestIds : RetrieveFileEndpoint(file_id)
    \/ \E file_id \in RequestIds, io \in IoOutcomes : DeleteFileEndpoint(file_id, io)
    \/ ListFilesEndpoint
    \/ HealthStatus

SpecAgent == Init /\ [][NextAgent]_vars

\* two agents registered at start-up and have sent no heartbeat since, the
\* third has not registered yet; the monitor's third sweep is due
InitRequests ==
    /\ now = heartbeat_timeout + SweepInterval
    /\ storage_nodes = [n \in {"n1", "n2"} |->
            [url |-> my_node_url(n), capacity |-> NodeCapacity, used_space |-> 0,
             is_active |-> TRUE, last_heartbeat |-> 0]]
    /\ files = <<>>
    /\ file_locations = <<>>
    /\ disk = [n \in Nodes |-> <<>>]
    /\ sidecar = [n \in Nodes |-> <<>>]
    /\ uuids = 0
    /\ store_op = Idle
    /\ delete_op = Idle
    /\ monitor_wakeup = heartbeat_timeout + SweepInterval
    /\ ret = [op |-> "none"]
    /\ uploaded = <<>>
    /\ delete_returns = <<>>
    /\ metrics = NoMetrics
    /\ tasks = Running

\* the registration bodies, with and without their fields
RegistrationUrls(node_id) ==
    (IF node_id = None THEN Urls("n1") ELSE Urls(node_id)) \cup {NoUrl}

\* the registry endpoints with every request body and with database failures
NextRequests ==
    \/ \E n \in Nodes, capacity \in Capacities :
          \E url \in Urls(n) : RegisterStorageNode(n, url, capacity)
    \/ \E node_id \in Nodes \cup {None}, capacity \in Capacities, db_up \in BOOLEAN :
          \E url \in RegistrationUrls(node_id) :
              RegisterRolledBack(node_id, url, capacity, db_up)
    \/ \E n \in Nodes : NodeHeartbeat(n)
    \/ NodeHeartbeatNoId
    \/ \E n \in Nodes : NodeHeartbeatRolledBack(n)
    \/ GetNodesHealth
    \/ GetNodesHealthRolledBack
    \/ HeartbeatMonitor

SpecRequests == InitRequests /\ [][NextRequests]_vars

\* every agent registered at start-up and none has sent a heartbeat since; the
\* monitor's third sweep, the first to find them stale, is due
InitFiles ==
    /\ now = heartbeat_timeout + SweepInterval
    /\ storage_nodes = [n \in Nodes |->
            [url |-> my_node_url(n), capacity |-> NodeCapacity, used_space |-> 0,
             is_active |-> TRUE, last_heartbeat |-> 0]]
    /\ files = <<>>
    /\ file_locations = <<>>
    /\ disk = [n \in Nodes |-> <<>>]
    /\ sidecar = [n \in Nodes |-> <<>>]
    /\ uuids = 0
    /\ store_op = Idle
    /\ delete_op = Idle
    /\ monitor_wakeup = heartbeat_timeout + SweepInterval
    /\ ret = [op |-> "none"]
    /\ uploaded = <<>>
    /\ delete_returns = <<>>
    /\ metrics = NoMetrics
    /\ tasks = Running

\* the file operations, while nodes go stale and come back
Next ==
    \/ \E filename \in Filenames, content \in Contents : UploadBegin(filename, content)
    \/ \E outcome \in Outcomes : StoreOnNode(outcome)
    \/ \E file_id \in FileIds, answering \in SUBSET Nodes : DownloadFile(file_id, answering)
    \/ ListAllFiles
    \/ \E file_id \in FileIds : RemoveFileBegin(file_id)
    \/ \E outcome \in Outcomes : DeleteOnNode(outcome)
    \/ \E n \in Nodes : NodeHeartbeat(n)
    \/ HeartbeatMonitor

Spec == InitFiles /\ [][Next]_vars

SpecPlacement == InitFiles /\ [][NextPlacement]_vars

\* as InitFiles, with one file stored earlier on n1 and n2
InitCatalog ==
    /\ now = heartbeat_timeout + SweepInterval
    /\ storage_nodes = [n \in Nodes |->
            [url |-> my_node_url(n), capacity |-> NodeCapacity, used_space |-> 0,
             is_active |-> TRUE, last_heartbeat |-> 0]]
    /\ files = [f \in {OldFile} |->
            [filename |-> "a.txt", size |-> 1, checksum |-> sha256(<<7>>),
             is_deleted |-> FALSE]]
    /\ file_locations = <<Row(OldFile, "n1"), Row(OldFile, "n2")>>
    /\ disk = [n \in Nodes |->
            IF n \in {"n1", "n2"} THEN [f \in {OldFile} |-> <<7>>] ELSE <<>>]
    /\ sidecar = [n \in Nodes |->
            IF n \in {"n1", "n2"}
            THEN [f \in {OldFile} |->
                    [file_id |-> OldFile, size |-> 1, checksum |-> sha256(<<7>>)]]
            ELSE <<>>]
    /\ uuids = 0
    /\ store_op = Idle
    /\ delete_op = Idle
    /\ monitor_wakeup = heartbeat_timeout + SweepInterval
    /\ ret = [op |-> "none"]
    /\ uploaded = [f \in {OldFile} |-> <<7>>]
    /\ delete_returns = <<>>
    /\ metrics = NoMetrics
    /\ tasks = Running

\* uploads and deletes of new files whose commit succeeds or fails, while
\* nodes go stale and come back; the earlier file is left alone
NextCatalog ==
    \/ \E filename \in Filenames, content \in Contents : UploadBegin(filename, content)
    \/ \E outcome \in Outcomes : StoreOnNode(outcome)
    \/ \E outcome \in Outcomes : StoreRolledBack(outcome)
    \/ \E file_id \in FileIds : RemoveFileBegin(file_id)
    \/ \E file_id \in FileIds : RemoveFileRolledBack(file_id)
    \/ \E outcome \in Outcomes : DeleteOnNode(outcome)
    \/ \E outcome \in Outcomes : DeleteRolledBack(outcome)
    \/ \E n \in Nodes : NodeHeartbeat(n)
    \/ HeartbeatMonitor

SpecCatalog == InitCatalog /\ [][NextCatalog]_vars

\* every agent registered at time 0; the monitor's first sweep comes at any
\* instant of its first interval
InitHeartbeats ==
    /\ now = 0
    /\ storage_nodes = [n \in Nodes |->
            [url |-> my_node_url(n), capacity |-> NodeCapacity, used_space |-> 0,
             is_active |-> TRUE, last_heartbeat |-> 0]]
    /\ files = <<>>
    /\ file_locations = <<>>
    /\ disk = [n \in Nodes |-> <<>>]
    /\ sidecar = [n \in Nodes |-> <<>>]
    /\ uuids = 0
    /\ store_op = Idle
    /\ delete_op = Idle
    /\ monitor_wakeup \in 1..SweepInterval
    /\ ret = [op |-> "none"]
    /\ uploaded = <<>>
    /\ delete_returns = <<>>
    /\ metrics = NoMetrics
    /\ tasks = Running

\* heartbeat_loop of agent n: its sleep ends every HeartbeatInterval seconds
\* and the heartbeat it then sends is delivered
HeartbeatLoop(n) ==
    /\ now % HeartbeatInterval = 0
    /\ storage_nodes[n].last_heartbeat < now
    /\ NodeHeartbeat(n)

\* a second passes. A heartbeat that is due may be lost, but never two in a
\* row: time does not pass the instant of a heartbeat that follows a lost one
\* before it is delivered
TickSecond ==
    /\ now < MaxTime
    /\ now < monitor_wakeup
    /\ now % HeartbeatInterval = 0 =>
          \A n \in Nodes :
              storage_nodes[n].last_heartbeat >= now - HeartbeatInterval
    /\ now' = now + 1
    /\ UNCHANGED <<storage_nodes, monitor_wakeup, catalog_vars, node_vars,
                 call_vars, ret, agent_vars>>

\* agents that lose single heartbeats, while sweeps run at any instant
NextHeartbeats ==
    \/ \E n \in Nodes : HeartbeatLoop(n)
    \/ TickSecond
    \/ HeartbeatMonitor
    \/ GetNodesHealth

SpecHeartbeats == InitHeartbeats /\ [][NextHeartbeats]_vars

\* the agent my_node_id is started when the other agents registered long
\* ago; the clock stands still
InitLoops ==
    /\ now = heartbeat_timeout + SweepInterval
    /\ storage_nodes = [n \in Nodes \ {my_node_id} |->
            [url |-> my_node_url(n), capacity |-> NodeCapacity, used_space |-> 0,
             is_active |-> TRUE, last_heartbeat |-> 0]]
    /\ files = <<>>
    /\ file_locations = <<>>
    /\ disk = [n \in Nodes |-> <<>>]
    /\ sidecar = [n \in Nodes |-> <<>>]
    /\ uuids = 0
    /\ store_op = Idle
    /\ delete_op = Idle
    /\ monitor_wakeup = heartbeat_timeout + SweepInterval
    /\ ret = [op |-> "none"]
    /\ uploaded = <<>>
    /\ delete_returns = <<>>
    /\ metrics = NoMetrics
    /\ tasks = Starting

\* the iterations of the two loops
HeartbeatLoopStep == \E reachable \in BOOLEAN, fault \in IterationFaults :
                        HeartbeatIteration(reachable, fault)
MonitorLoopStep == \E fault \in IterationFaults : MonitorIteration(fault)

\* the agent's start and its heartbeat loop, the controller's monitor loop,
\* and the heartbeats of the other agents
NextLoops ==
    \/ \E reachable \in BOOLEAN : AgentStartup(reachable)
    \/ HeartbeatWake
    \/ HeartbeatLoopStep
    \/ HeartbeatBackoff
    \/ MonitorWake
    \/ MonitorLoopStep
    \/ MonitorBackoff
    \/ \E n \in Nodes \ {my_node_id} : NodeHeartbeat(n)

SpecLoops == InitLoops /\ [][NextLoops]_vars

\* every sleep ends and every iteration runs; the controller is reachable
\* again and again, and iterations that do not raise come again and again
FairLoops ==
    /\ SpecLoops
    /\ WF_vars(\E reachable \in BOOLEAN : AgentStartup(reachable))
    /\ WF_vars(HeartbeatWake)
    /\ WF_vars(HeartbeatBackoff)
    /\ WF_vars(HeartbeatLoopStep)
    /\ SF_vars(HeartbeatIteration(TRUE, "none"))
    /\ WF_vars(MonitorWake)
    /\ WF_vars(MonitorBackoff)
    /\ WF_vars(MonitorLoopStep)

\* the agent's start, its heartbeat loop and the requests it serves once
\* lifespan has yielded
NextServing ==
    \/ \E reachable \in BOOLEAN : AgentStartup(reachable)
    \/ HeartbeatWake
    \/ HeartbeatLoopStep
    \/ HeartbeatBackoff
    \/ \E file_id \in FileIds, content \in Contents, io \in IoOutcomes :
          /\ tasks.lifespan = "serving"
          /\ StoreFileEndpoint(file_id, content, io)
    \/ \E file_id \in FileIds :
          /\ tasks.lifespan = "serving"
          /\ RetrieveFileEndpoint(file_id)
    \/ \E file_id \in FileIds, io \in IoOutcomes :
          /\ tasks.lifespan = "serving"
          /\ DeleteFileEndpoint(file_id, io)

SpecServing == InitLoops /\ [][NextServing]_vars

\* the file operations and the sweep; a call that is not answered ends as
\* "failed" when its timeout of 30 s expires
NextCalls ==
    \/ \E filename \in Filenames, content \in Contents : UploadBegin(filename, content)
    \/ \E outcome \in Outcomes : StoreOnNode(outcome)
    \/ \E file_id \in FileIds, answering \in SUBSET Nodes : DownloadFile(file_id, answering)
    \/ \E file_id \in FileIds : RemoveFileBegin(file_id)
    \/ \E outcome \in Outcomes : DeleteOnNode(outcome)
    \/ HeartbeatMonitor

SpecCalls == InitFiles /\ [][NextCalls]_vars

\* every call in flight ends: by its answer, by an error, or by its timeout
FairCalls ==
    /\ SpecCalls
    /\ WF_vars(\E outcome \in Outcomes : StoreOnNode(outcome))
    /\ WF_vars(\E outcome \in Outcomes : DeleteOnNode(outcome))

\* len samples that arrived one after the other, the oldest taking first ms
Arrivals(first, len) == [i \in 1..len |-> first + i - 1]

\* an agent that has served for a while: its window is empty, holds one
\* sample, is one short of full, or is full
InitMetrics ==
    /\ now = 0
    /\ storage_nodes = <<>>
    /\ files = <<>>
    /\ file_locations = <<>>
    /\ disk = [n \in Nodes |-> <<>>]
    /\ sidecar = [n \in Nodes |-> <<>>]
    /\ uuids = 0
    /\ store_op = Idle
    /\ delete_op = Idle
    /\ monitor_wakeup = SweepInterval
    /\ ret = [op |-> "none", calls |-> 0]
    /\ uploaded = <<>>
    /\ delete_returns = <<>>
    /\ \E len \in {0, 1, WindowSize - 1, WindowSize}, u, d, r \in 0..1 :
          metrics = [upload_ops_count |-> u, download_ops_count |-> d,
                     delete_ops_count |-> r, response_times |-> Arrivals(1, len)]
    /\ tasks = Running

NextMetrics ==
    \E operation_type \in OperationTypes, response_time_ms \in SampleTimes :
        RecordOperation(operation_type, response_time_ms)

SpecMetrics == InitMetrics /\ [][NextMetrics]_vars

\* ------------------------------------------------------------ properties
Range(seq) == {seq[k] : k \in 1..Len(seq)}

\* the nodes that have a PlacementRecord of file_id, and how many each has
PlacementNodes(file_id) == {l.node_id : l \in Range(LocationsOf(file_locations, file_id))}
PlacementCount(file_id, n) ==
    Cardinality({k \in 1..Len(file_locations) :
                    file_locations[k] = [file_id |-> file_id, node_id |-> n]})

StoreReturned == ret.op = "store_file" /\ ret.status = "returned"

\* C1: when store_file has returned successfully, the catalog holds the
\* FileRecord of the new id, exactly one PlacementRecord for each node of the
\* returned nodes[] and none for any other node, and the record's size and
\* checksum are the length and the digest of the uploaded bytes.
C1_StoreWritesRecords ==
    StoreReturned =>
        /\ ret.file_id \in DOMAIN files
        /\ \A n \in Nodes :
              PlacementCount(ret.file_id, n) = IF n \in Range(ret.nodes) THEN 1 ELSE 0
        /\ Len(ret.nodes) = Cardinality(Range(ret.nodes))
        /\ files[ret.file_id].size = Len(uploaded[ret.file_id])
        /\ files[ret.file_id].checksum = sha256(uploaded[ret.file_id])
        /\ ret.checksum = sha256(uploaded[ret.file_id])

\* a successful store of a non-empty payload on both targets
C1_Witness ==
    /\ StoreReturned
    /\ Len(ret.nodes) = num_replicas
    /\ uploaded[ret.file_id] # <<>>
    /\ Cardinality(ActiveRows(storage_nodes)) >= num_replicas

\* C2: after a successful store_file of content C, while the file is not
\* deleted and the nodes that hold it are active and answer, retrieve_file
\* returns a result whose content is C, for every C, the empty payload included.
C2_RoundTrip ==
    [][\A file_id \in FileIds, answering \in SUBSET Nodes :
        ( /\ file_id \in DOMAIN uploaded
          /\ ~files[file_id].is_deleted
          /\ ~(delete_op.pc = "delete" /\ delete_op.file_id = file_id)
          /\ PlacementNodes(file_id) \subseteq ActiveRows(storage_nodes) \cap answering
          /\ DownloadFile(file_id, answering) )
        => /\ ret'.value.found
           /\ ret'.value.content = uploaded[file_id]]_vars

\* C3: once delete_file(id) has returned, list_files excludes id, retrieve_file(id)
\* finds nothing whichever nodes answer, and the FileRecord of id is still in
\* the catalog with is_deleted true.
C3_DeletedIsHidden ==
    \A file_id \in DOMAIN delete_returns :
        /\ file_id \in DOMAIN files
        /\ files[file_id].is_deleted
        /\ file_id \notin list_files
        /\ \A answering \in SUBSET Nodes : ~retrieve_file(file_id, answering).found
        /\ ret.op = "list_files" => file_id \notin ret.files
        /\ (ret.op = "retrieve_file" /\ ret.file_id = file_id) => ~ret.value.found

\* a download asked after the delete returned, while an active node still has the bytes
C3_Witness ==
    /\ ret.op = "retrieve_file"
    /\ ret.file_id \in DOMAIN delete_returns
    /\ \E n \in PlacementNodes(ret.file_id) \cap ActiveRows(storage_nodes) :
          ret.file_id \in DOMAIN disk[n] /\ disk[n][ret.file_id] # <<>>

\* C4: a store_file called while fewer than num_replicas nodes are active
\* raises at once and leaves the FileRecords and the PlacementRecords as they were.
C4_FailFast ==
    [][\A filename \in Filenames, content \in Contents :
        ( /\ Cardinality(ActiveRows(storage_nodes)) < num_replicas
          /\ UploadBegin(filename, content) )
        => /\ ret'.op = "store_file"
           /\ ret'.file_id = uuids'
           /\ ret'.status = "raised"
           /\ store_op'.pc = "idle"
           /\ files' = files
           /\ file_locations' = file_locations]_vars

\* a refused upload, with one node active
C4_Witness ==
    /\ ret.op = "store_file"
    /\ ret.status = "raised"
    /\ ret.detail = "Need nodes"
    /\ Cardinality(ActiveRows(storage_nodes)) = 1
    /\ ret.file_id \notin DOMAIN files

\* the store call now ending is the last one of the store_file in flight
LastStoreCall(outcome) ==
    /\ store_op.pc = "store"
    /\ store_op.i = Len(store_op.target_nodes)
    /\ StoreOnNode(outcome)

\* C5: when exactly one of the two store calls fails, store_file returns, its
\* nodes[] is exactly the node that accepted the write, and that node and not
\* the failed one has a PlacementRecord of the new file.
C5_PartialStore ==
    [][\A outcome \in Outcomes :
        ( /\ LastStoreCall(outcome)
          /\ Len(store_op.target_nodes) = num_replicas
          /\ (outcome = "ok") # (store_op.outcomes = <<"ok">>) )
        => LET accepted == IF outcome = "ok"
                           THEN store_op.target_nodes[store_op.i].node_id
                           ELSE store_op.target_nodes[1].node_id
           IN  /\ ret'.op = "store_file"
               /\ ret'.file_id = store_op.file_id
               /\ ret'.status = "returned"
               /\ ret'.nodes = <<accepted>>
               /\ \A n \in Nodes :
                     Cardinality({k \in 1..Len(file_locations') :
                         file_locations'[k] = [file_id |-> store_op.file_id, node_id |-> n]})
                       = IF n = accepted THEN 1 ELSE 0]_vars

\* a store that returned one node: the other target's call failed
C5_Witness ==
    /\ StoreReturned
    /\ Len(ret.nodes) = 1
    /\ PlacementNodes(ret.file_id) = Range(ret.nodes)

\* C6: when every store call fails, store_file raises and neither a FileRecord
\* nor a PlacementRecord of that file id is written.
C6_TotalFailure ==
    [][\A outcome \in Outcomes :
        ( /\ LastStoreCall(outcome)
          /\ outcome = "failed"
          /\ \A k \in 1..Len(store_op.outcomes) : store_op.outcomes[k] = "failed" )
        => /\ ret'.op = "store_file"
           /\ ret'.file_id = store_op.file_id
           /\ ret'.status = "raised"
           /\ files' = files
           /\ file_locations' = file_locations
           /\ store_op.file_id \notin DOMAIN files'
           /\ \A k \in 1..Len(file_locations') :
                 file_locations'[k].file_id # store_op.file_id]_vars

\* a store_file that raised after both calls failed
C6_Witness ==
    /\ ret.op = "store_file"
    /\ ret.status = "raised"
    /\ ret.detail = "Couldn't store file anywhere!"
    /\ ret.file_id \notin DOMAIN files

\* the step of delete_file(file_id) now taken: its start, or the end of a call
DeleteStep(file_id) ==
    \/ RemoveFileBegin(file_id)
    \/ /\ delete_op.pc = "delete"
       /\ delete_op.file_id = file_id
       /\ \E outcome \in Outcomes : DeleteOnNode(outcome)

\* C7: delete_file on a file that is already soft-deleted raises nothing,
\* returns {nodes_cleaned} and leaves the catalog as the first call left it.
C7_DeleteIdempotent ==
    [][\A file_id \in FileIds :
        ( /\ file_id \in DOMAIN delete_returns
          /\ DeleteStep(file_id) )
        => /\ files' = files
           /\ file_locations' = file_locations
           /\ files'[file_id].is_deleted
           /\ delete_op'.pc = "idle" =>
                 /\ ret'.op = "delete_file"
                 /\ ret'.file_id = file_id
                 /\ ret'.status = "returned"
                 /\ Range(ret'.nodes_cleaned) \subseteq PlacementNodes(file_id)
           /\ delete_op'.pc # "idle" => ret' = ret]_vars

\* a second delete_file of the same file has returned
C7_Witness ==
    /\ ret.op = "delete_file"
    /\ ret.status = "returned"
    /\ ret.file_id \in DOMAIN delete_returns
    /\ delete_returns[ret.file_id] = 2

Age(n) == now - storage_nodes[n].last_heartbeat
Overdue(n) == Age(n) > heartbeat_timeout

C9_HeartbeatRevives ==
    /\ [][\A n \in DOMAIN storage_nodes :
            NodeHeartbeat(n) =>
                /\ storage_nodes' = [storage_nodes EXCEPT
                        ![n] = [@ EXCEPT !.is_active = TRUE, !.last_heartbeat = now]]
                /\ n \in ActiveRows(storage_nodes')
                /\ ret'.status = 200]_vars
    /\ [][\A n \in ActiveRows(storage_nodes) :
            n \notin ActiveRows(storage_nodes') => Overdue(n)]_vars

\* a node that a sweep had marked inactive has sent a heartbeat and is active
C9_Witness ==
    /\ ret.op = "heartbeat"
    /\ ret.status = 200
    /\ ~ret.was_active
    /\ storage_nodes[ret.node_id].is_active
    /\ storage_nodes[ret.node_id].last_heartbeat = now

\* C10: a heartbeat for a node id that is not registered is answered 404 and
\* leaves the registry as it was.
C10_UnknownHeartbeat ==
    [][\A n \in Nodes \ DOMAIN storage_nodes :
        NodeHeartbeat(n) =>
            /\ ret'.op = "heartbeat"
            /\ ret'.node_id = n
            /\ ret'.status = 404
            /\ storage_nodes' = storage_nodes]_vars

\* a 404 answered to a node that is still unknown, while others are registered
C10_Witness ==
    /\ ret.op = "heartbeat"
    /\ ret.status = 404
    /\ ret.node_id \notin DOMAIN storage_nodes
    /\ storage_nodes # <<>>

\* C11: register_node is an upsert keyed by node id: a registration leaves the
\* rows of the other nodes alone and leaves exactly one row for its node id,
\* with the url and the capacity of the request, is_active true and
\* last_heartbeat refreshed, whether the node was absent, active or inactive;
\* registering again with the same arguments changes nothing.
C11_RegisterUpsert ==
    [][\A n \in Nodes, capacity \in Capacities : \A url \in Urls(n) :
        RegisterStorageNode(n, url, capacity) =>
            /\ DOMAIN storage_nodes' = DOMAIN storage_nodes \cup {n}
            /\ \A m \in DOMAIN storage_nodes \ {n} : storage_nodes'[m] = storage_nodes[m]
            /\ storage_nodes'[n].url = url
            /\ storage_nodes'[n].capacity = capacity
            /\ storage_nodes'[n].is_active
            /\ storage_nodes'[n].last_heartbeat = now
            /\ register_node(storage_nodes', n, url, capacity) = storage_nodes'
            /\ (/\ n \in DOMAIN storage_nodes
                /\ storage_nodes[n].url = url
                /\ storage_nodes[n].capacity = capacity
                /\ storage_nodes[n].is_active)
               => storage_nodes' =
                    [storage_nodes EXCEPT ![n] = [@ EXCEPT !.last_heartbeat = now]]]_vars

\* an inactive node has registered again from another url with another capacity
C11_Witness ==
    /\ ret.op = "register"
    /\ "before" \in DOMAIN ret
    /\ ret.before = "inactive"
    /\ storage_nodes[ret.node_id].url # my_node_url(ret.node_id)
    /\ storage_nodes[ret.node_id].capacity = DefaultCapacity
    /\ storage_nodes[ret.node_id].is_active
    /\ storage_nodes[ret.node_id].last_heartbeat = now

\* C12: the download endpoint answers 404 when retrieve_file finds nothing: the
\* file id is unknown, the file is soft-deleted, or no replica can be read.
C12_DownloadNotFound ==
    [][\A file_id \in FileIds, answering \in SUBSET Nodes :
        ( /\ ~retrieve_file(file_id, answering).found
          /\ DownloadFile(file_id, answering) )
        => ret'.status = 404]_vars

\* the placement nodes of file_id that are active, answer and have the bytes
Readable(file_id, answering) ==
    {n \in PlacementNodes(file_id) \cap ActiveRows(storage_nodes) \cap answering :
        file_id \in DOMAIN disk[n]}

\* C13: for a file that is not deleted, retrieve_file returns the stored
\* content whenever at least one node with a PlacementRecord is active, has the
\* bytes and answers, whatever the state of the other replicas; it finds
\* nothing only when no candidate can be read.
C13_ReadAvailability ==
    [][\A file_id \in FileIds, answering \in SUBSET Nodes :
        ( /\ file_id \in DOMAIN files
          /\ ~files[file_id].is_deleted
          /\ Readable(file_id, answering) # {}
          /\ DownloadFile(file_id, answering) )
        => /\ ret'.value.found
           /\ ret'.value.content = uploaded[file_id]]_vars

\* C14: while delete_file(id) has a delete call to a storage node in flight,
\* the soft-delete flag of id is already visible to the other requests:
\* list_files does not return id and retrieve_file(id) finds nothing.
C14_FlagBeforeCleanup ==
    delete_op.pc = "delete" =>
        /\ files[delete_op.file_id].is_deleted
        /\ delete_op.file_id \notin list_files
        /\ \A answering \in SUBSET Nodes :
              ~retrieve_file(delete_op.file_id, answering).found

\* the nodes whose delete call returned success, from the history of calls
CleanedNodes(outcomes) == {o[1] : o \in {c \in Range(outcomes) : c[2] = "ok"}}

\* C15: delete_file on a file that has a FileRecord returns normally however
\* its delete calls ended; nodes_cleaned holds exactly the placement nodes
\* whose call returned success, each once, and the soft-delete flag is
\* committed even when every call failed.
C15_DeleteReportsCleaned ==
    [][\A file_id \in FileIds :
        ( /\ FindFile(file_id)
          /\ DeleteStep(file_id)
          /\ delete_op'.pc = "idle" )
        => /\ ret'.op = "delete_file"
           /\ ret'.file_id = file_id
           /\ ret'.status = "returned"
           /\ ret'.http_status = 200
           /\ Range(ret'.nodes_cleaned) = CleanedNodes(ret'.outcomes)
           /\ Len(ret'.nodes_cleaned) = Cardinality(Range(ret'.nodes_cleaned))
           /\ Range(ret'.nodes_cleaned) \subseteq PlacementNodes(file_id)
           /\ files'[file_id].is_deleted]_vars

\* a delete_file that returned after the delete calls to both replicas failed
C15_Witness ==
    /\ ret.op = "delete_file"
    /\ ret.status = "returned"
    /\ Len(ret.outcomes) = num_replicas
    /\ ret.nodes_cleaned = <<>>
    /\ files[ret.file_id].is_deleted

\* C16: a FileRecord, once in the catalog, is in the catalog in every later
\* state, and its is_deleted, once true, is true in every later state.
C16_LifecycleMonotone ==
    [][/\ DOMAIN files \subseteq DOMAIN files'
       /\ \A f \in DOMAIN files : files[f].is_deleted => files'[f].is_deleted]_vars

\* a second delete_file is under way on a record that is already soft-deleted
C16_Witness ==
    /\ delete_op.pc = "delete"
    /\ delete_op.file_id \in DOMAIN delete_returns
    /\ files[delete_op.file_id].is_deleted

\* C17: a store_file called while fewer than num_replicas nodes are active
\* sends no store call, to any node, and changes no node's local content.
C17_NoCallOnFailFast ==
    [][\A filename \in Filenames, content \in Contents :
        ( /\ Cardinality(ActiveRows(storage_nodes)) < num_replicas
          /\ UploadBegin(filename, content) )
        => /\ store_op'.pc # "store"
           /\ disk' = disk
           /\ \A n \in Nodes : uuids' \notin DOMAIN disk'[n]]_vars

\* an upload was refused while one node was active; no node has the file
C17_Witness ==
    /\ ret.op = "store_file"
    /\ ret.status = "raised"
    /\ ret.detail = "Need nodes"
    /\ store_op.pc = "idle"
    /\ Cardinality(ActiveRows(storage_nodes)) \in 1..(num_replicas - 1)
    /\ \A n \in Nodes : ret.file_id \notin DOMAIN disk[n]

\* C20: delete_file for a file id without a FileRecord is answered with a
\* not-found status, sends no delete call and leaves the catalog and the
\* nodes' content as they were.
C20_DeleteUnknown ==
    [][\A file_id \in FileIds :
        ( /\ ~FindFile(file_id)
          /\ RemoveFileBegin(file_id) )
        => /\ ret'.op = "delete_file"
           /\ ret'.http_status = 404
           /\ delete_op'.pc = "idle"
           /\ disk' = disk
           /\ files' = files
           /\ file_locations' = file_locations]_vars

\* C18: when the transaction of a registry operation fails because the
\* database is unreachable, the caller gets a 5xx answer: the register endpoint
\* does not answer "registered", the heartbeat endpoint does not answer
\* not-found, the health endpoint does not answer 200.
C18_FailureSurfaced ==
    [][/\ \A node_id \in Nodes \cup {None}, capacity \in Capacities :
            \A url \in RegistrationUrls(node_id) :
                RegisterRolledBack(node_id, url, capacity, FALSE) =>
                    /\ ret'.status >= 500
                    /\ ret'.body # "registered"
       /\ \A n \in Nodes : NodeHeartbeatRolledBack(n) => ret'.status >= 500
       /\ GetNodesHealthRolledBack => ret'.status >= 500]_vars

\* C19: a heartbeat without node_id, and a registration without node_id or
\* without url, are answered with a 4xx status and leave the registry as it was.
C19_MissingFieldRejected ==
    [][/\ NodeHeartbeatNoId =>
            /\ ret'.status \in 400..499
            /\ storage_nodes' = storage_nodes
       /\ \A node_id \in Nodes \cup {None}, capacity \in Capacities :
            \A url \in RegistrationUrls(node_id) :
                ( /\ node_id = None \/ url = NoUrl
                  /\ RegisterRolledBack(node_id, url, capacity, TRUE) )
                => /\ ret'.status \in 400..499
                   /\ storage_nodes' = storage_nodes]_vars

\* C21: on a storage node, right after save_file_locally(id, B) has returned
\* true load_file_locally(id) returns exactly B, whatever was stored under id
\* before, and what load_file_locally(id) returns changes only in a step that
\* saves or removes id.
C21_AgentRoundTrip ==
    /\ [][\A file_id \in RequestIds, content \in Contents :
            StoreFileEndpoint(file_id, content, "ok") =>
                /\ ret'.saved
                /\ load_file_locally(disk', my_node_id, file_id)
                     = [status |-> 200, content |-> content]]_vars
    /\ [][\A file_id \in RequestIds :
            load_file_locally(disk', my_node_id, file_id)
                # load_file_locally(disk, my_node_id, file_id)
            => \/ \E content \in Contents, io \in IoOutcomes :
                     StoreFileEndpoint(file_id, content, io)
               \/ \E io \in IoOutcomes : DeleteFileEndpoint(file_id, io)]_vars

\* a save has replaced a stored payload by a different one, which load returns
C21_Witness ==
    /\ ret.op = "store_endpoint"
    /\ ret.saved
    /\ ret.previous.status = 200
    /\ ret.previous.content # ret.content
    /\ load_file_locally(disk, my_node_id, ret.file_id).status = 200
    /\ load_file_locally(disk, my_node_id, ret.file_id).content = ret.content

\* C22: on a storage node, remove_file_locally(id) returns ok whether or not id
\* is stored; after it neither the payload nor the sidecar of id exists and
\* the other files are untouched; when id is not stored it changes nothing.
C22_AgentRemoveIdempotent ==
    [][\A file_id \in RequestIds, io \in IoOutcomes :
        DeleteFileEndpoint(file_id, io) =>
            /\ io = "ok" =>
                 /\ ret'.removed
                 /\ ret'.status = 200
                 /\ file_id \notin DOMAIN disk'[my_node_id]
                 /\ file_id \notin DOMAIN sidecar'[my_node_id]
                 /\ \A f \in DOMAIN disk[my_node_id] \ {file_id} :
                       /\ f \in DOMAIN disk'[my_node_id]
                       /\ disk'[my_node_id][f] = disk[my_node_id][f]
                 /\ \A f \in DOMAIN sidecar[my_node_id] \ {file_id} :
                       /\ f \in DOMAIN sidecar'[my_node_id]
                       /\ sidecar'[my_node_id][f] = sidecar[my_node_id][f]
            /\ file_id \notin DOMAIN disk[my_node_id] \cup DOMAIN sidecar[my_node_id] =>
                 /\ ret'.removed
                 /\ disk' = disk
                 /\ sidecar' = sidecar]_vars

\* a remove of an id that is not stored has returned ok, next to a stored file
C22_Witness ==
    /\ ret.op = "delete_endpoint"
    /\ ret.removed
    /\ ~ret.had
    /\ ret.file_id \notin DOMAIN disk[my_node_id]
    /\ DOMAIN disk[my_node_id] # {}

\* C23: on a storage node, retrieving a file id that is not stored is answered
\* 404, by load_file_locally and by GET /retrieve/{file_id}.
C23_AgentNotFound ==
    [][\A file_id \in RequestIds :
        ( /\ file_id \notin DOMAIN disk[my_node_id]
          /\ RetrieveFileEndpoint(file_id) )
        => /\ load_file_locally(disk, my_node_id, file_id).status = 404
           /\ ret'.status = 404]_vars

\* the nodes a delete_file sent a delete call to, from the history of calls
CalledNodes(outcomes) == {o[1] : o \in Range(outcomes)}

\* C24: a delete_file that returns has sent a delete call to every node that
\* has a PlacementRecord of the file, the nodes marked inactive included.
C24_DeleteCallsEveryPlacement ==
    [][\A file_id \in FileIds :
        ( /\ FindFile(file_id)
          /\ DeleteStep(file_id)
          /\ delete_op'.pc = "idle" )
        => CalledNodes(ret'.outcomes) = PlacementNodes(file_id)]_vars

\* capacity - used_space of a registered node
available(n) == storage_nodes[n].capacity - storage_nodes[n].used_space

\* C25: the target nodes store_file chooses are the active nodes with the
\* largest available capacity: no active node left out has strictly more
\* available capacity than a chosen one.
C25_BestFirstPlacement ==
    [][\A filename \in Filenames, content \in Contents :
        ( /\ UploadBegin(filename, content)
          /\ store_op'.pc = "store" )
        => LET chosen == {t.node_id : t \in Range(store_op'.target_nodes)}
           IN  \A c \in chosen, u \in ActiveRows(storage_nodes) \ chosen :
                  available(u) <= available(c)]_vars

\* the nodes to which a call of the store_file, or of the delete_file, in
\* progress has been sent and has not ended yet
StoreCallsInFlight ==
    IF store_op.pc = "store" THEN {store_op.target_nodes[store_op.i].node_id} ELSE {}
DeleteCallsInFlight ==
    IF delete_op.pc = "delete" THEN {delete_op.file_locations[delete_op.i].node_id}
    ELSE {}

\* C26: the fan-outs are concurrent: when store_file starts its calls, the
\* calls to all its target nodes are in flight together, and when delete_file
\* starts its calls, the calls to all the active placement nodes are.
C26_ConcurrentFanOut ==
    [][/\ \A filename \in Filenames, content \in Contents :
            ( /\ UploadBegin(filename, content)
              /\ store_op'.pc = "store" )
            => StoreCallsInFlight' = {t.node_id : t \in Range(store_op'.target_nodes)}
       /\ \A file_id \in FileIds :
            ( /\ RemoveFileBegin(file_id)
              /\ delete_op'.pc = "delete" )
            => DeleteCallsInFlight'
                 = PlacementNodes(file_id) \cap ActiveRows(storage_nodes)]_vars

\* C27: in every reachable catalog state each PlacementRecord's file id is the
\* id of an existing FileRecord, under any interleaving of uploads, deletes,
\* heartbeats and sweeps and when the catalog commit fails.
C27_PlacementsReferenceFiles ==
    \A k \in 1..Len(file_locations) : file_locations[k].file_id \in DOMAIN files

\* a store_file whose commit failed after a node accepted the file: the copy
\* is on a disk, the catalog has neither the FileRecord nor a PlacementRecord
C27_Witness ==
    /\ ret.op = "store_file"
    /\ ret.status = "raised"
    /\ ret.detail = "commit failed"
    /\ ret.nodes # <<>>
    /\ ret.file_id \notin DOMAIN files
    /\ \E n \in Nodes : ret.file_id \in DOMAIN disk[n]
    /\ LocationsOf(file_locations, ret.file_id) = <<>>
    /\ file_locations # <<>>

\* C28: in every reachable catalog state each FileRecord, deleted or not, has
\* at least one PlacementRecord.
C28_FileHasPlacement ==
    \A f \in DOMAIN files : LocationsOf(file_locations, f) # <<>>

\* a soft-deleted file that was stored on one node only
C28_Witness ==
    \E f \in FileIds :
        /\ f \in DOMAIN files
        /\ files[f].is_deleted
        /\ Len(LocationsOf(file_locations, f)) = 1

\* the node ids of the targets store_file selected
TargetIds(op) == {t.node_id : t \in Range(op.target_nodes)}

DeleteOrRollbackStep(file_id) ==
    \/ DeleteStep(file_id)
    \/ RemoveFileRolledBack(file_id)
    \/ /\ delete_op.pc = "delete"
       /\ delete_op.file_id = file_id
       /\ \E outcome \in Outcomes : DeleteRolledBack(outcome)

\* C30: delete_file changes nothing in the catalog except the is_deleted flag
\* of the target FileRecord: its filename, size and checksum, every
\* PlacementRecord and every other FileRecord are unchanged.
C30_DeleteChangesOnlyFlag ==
    [][\A file_id \in FileIds :
        DeleteOrRollbackStep(file_id)
        => /\ file_locations' = file_locations
           /\ DOMAIN files' = DOMAIN files
           /\ \A f \in DOMAIN files \ {file_id} : files'[f] = files[f]
           /\ file_id \in DOMAIN files =>
                 files'[file_id] = [files[file_id] EXCEPT
                                      !.is_deleted = files'[file_id].is_deleted]]_vars

\* delete_file has returned for a file stored on two nodes: the file is
\* flagged, its two placements and its size are still recorded, and the
\* earlier file is as it was
C30_Witness ==
    /\ ret.op = "delete_file"
    /\ ret.status = "returned"
    /\ files[ret.file_id].is_deleted
    /\ files[ret.file_id].size = Len(uploaded[ret.file_id])
    /\ Len(LocationsOf(file_locations, ret.file_id)) = num_replicas
    /\ OldFile \in DOMAIN files
    /\ ~files[OldFile].is_deleted
    /\ PlacementNodes(OldFile) = {"n1", "n2"}

\* C31: a liveness sweep marks inactive exactly the nodes that were active
\* with last_heartbeat older than now - heartbeat_timeout and leaves every
\* other node unchanged; its report has active_nodes equal to the number of
\* nodes active after the marking, stale_nodes equal to the set marked in this
\* sweep, and replacement_needed true exactly when active_nodes < min_required.
C31_SweepReport ==
    /\ [][(HeartbeatMonitor \/ GetNodesHealth) =>
            /\ DOMAIN storage_nodes' = DOMAIN storage_nodes
            /\ \A n \in DOMAIN storage_nodes :
                  storage_nodes'[n] =
                      IF storage_nodes[n].is_active /\ Overdue(n)
                      THEN [storage_nodes[n] EXCEPT !.is_active = FALSE]
                      ELSE storage_nodes[n]]_vars
    /\ [][GetNodesHealth =>
            /\ ret'.report.stale_nodes =
                  ActiveRows(storage_nodes) \ ActiveRows(storage_nodes')
            /\ ret'.report.replacement_needed
                  = (ret'.report.active_nodes < min_required_nodes)
            /\ ret'.report.active_nodes = Cardinality(ActiveRows(storage_nodes'))]_vars

\* C32: a node that heartbeats every 15 s and loses single heartbeats (gaps of
\* 30 s between two delivered heartbeats) is never marked inactive by a sweep,
\* at whatever instant the sweeps run: a sweep marks a node only when its last
\* heartbeat is strictly older than the timeout.
C32_SingleMissTolerated ==
    /\ [](\A n \in Nodes : storage_nodes[n].is_active)
    /\ [][\A n \in Nodes :
            ( /\ storage_nodes[n].is_active
              /\ ~storage_nodes'[n].is_active )
            => Age(n) > heartbeat_timeout]_vars

\* a sweep has run at the instant a node's last heartbeat is exactly 30 s old,
\* the following one not delivered yet, and has reported no stale node
C32_Witness ==
    /\ ret.op = "health"
    /\ ret.report.stale_nodes = {}
    /\ \E n \in Nodes :
          /\ Age(n) = heartbeat_timeout
          /\ storage_nodes[n].is_active

\* C33: an agent whose registration at startup failed becomes registered
\* once the controller is reachable again, through its heartbeat cycle and
\* without a restart.
C33_RegistrationRetried ==
    ( /\ tasks.lifespan = "serving"
      /\ my_node_id \notin DOMAIN storage_nodes )
    ~> my_node_id \in DOMAIN storage_nodes

\* C34: a call of the agent to the controller that fails does not raise out
\* of the agent and does not change what the node stores: the agent goes on
\* to serve, its loop goes back to its sleep, and what a request returns
\* depends on the node's files alone.
C34_ControllerFailuresContained ==
    /\ [](tasks.lifespan # "failed" /\ tasks.heartbeat_loop # "stopped")
    /\ [][AgentStartup(FALSE) =>
            /\ tasks'.lifespan = "serving"
            /\ tasks'.heartbeat_loop = "sleep"
            /\ UNCHANGED <<node_vars, metrics>>]_vars
    /\ [][HeartbeatIteration(FALSE, "none") =>
            /\ tasks' = [tasks EXCEPT !.heartbeat_loop = "sleep"]
            /\ ~ret'.result
            /\ UNCHANGED <<node_vars, metrics>>]_vars
    /\ [][\A file_id \in FileIds :
            RetrieveFileEndpoint(file_id) =>
                /\ (ret'.status = 200) = (file_id \in DOMAIN disk[my_node_id])
                /\ ret'.status = 200 => ret'.response.content = disk[my_node_id][file_id]]_vars

\* the agent never registered and its last heartbeat failed, and it has just
\* returned a file it stores
C34_Witness ==
    /\ my_node_id \notin DOMAIN storage_nodes
    /\ tasks.lifespan = "serving"
    /\ tasks.heartbeat_loop = "sleep"
    /\ ret.op = "retrieve_endpoint"
    /\ ret.status = 200
    /\ ret.response.content # <<>>
    /\ metrics.upload_ops_count > 0

\* C35: neither the controller's sweep loop nor the node's heartbeat loop
\* ends because an iteration raised: the loop waits its back-off and runs
\* further iterations, so sweeps and heartbeat attempts occur again and again.
C35_LoopsSurvive ==
    /\ [](tasks.heartbeat_monitor \in {"sleep", "check", "backoff"})
    /\ [](tasks.heartbeat_loop \in {"none", "sleep", "send", "backoff"})
    /\ [][MonitorIteration("raises") => tasks'.heartbeat_monitor = "backoff"]_vars
    /\ [][\A reachable \in BOOLEAN :
            HeartbeatIteration(reachable, "raises") =>
                tasks'.heartbeat_loop = "backoff"]_vars
    /\ []<><<MonitorLoopStep>>_vars
    /\ []<><<HeartbeatLoopStep>>_vars

\* an iteration of each loop is about to run after an earlier one raised
C35_Witness ==
    /\ ret.op = "heartbeat_monitor"
    /\ ret.fault = "raises"
    /\ tasks.heartbeat_monitor = "check"
    /\ tasks.heartbeat_loop = "send"

\* C36: store_file, retrieve_file and delete_file end with a result or a
\* failure even when a node never answers: a call that times out is a failure
\* of that node only, the calls to the other nodes are still made and what
\* they achieved is in the result.
C36_CallsTerminate ==
    /\ (store_op.pc = "store") ~> (store_op.pc = "idle")
    /\ (delete_op.pc = "delete") ~> (delete_op.pc = "idle")
    /\ [][StoreOnNode("failed") =>
            IF store_op.i < Len(store_op.target_nodes)
            THEN /\ store_op'.pc = "store"
                 /\ store_op'.i = store_op.i + 1
                 /\ store_op'.successful_stores = store_op.successful_stores
            ELSE /\ store_op'.pc = "idle"
                 /\ ret'.op = "store_file"
                 /\ IF store_op.successful_stores = <<>>
                    THEN ret'.status = "raised"
                    ELSE /\ ret'.status = "returned"
                         /\ ret'.nodes = store_op.successful_stores]_vars
    /\ [][DeleteOnNode("failed") =>
            IF delete_op'.pc = "delete"
            THEN /\ delete_op'.i > delete_op.i
                 /\ delete_op'.deleted_nodes = delete_op.deleted_nodes
            ELSE /\ ret'.op = "delete_file"
                 /\ ret'.status = "returned"
                 /\ ret'.nodes_cleaned = delete_op.deleted_nodes
                 /\ \A k \in (delete_op.i + 1)..Len(delete_op.file_locations) :
                       ~ActiveNode(delete_op.file_locations[k].node_id)]_vars
    /\ [][\A file_id \in FileIds :
            DownloadFile(file_id, {}) =>
                /\ ret'.op = "retrieve_file"
                /\ ~ret'.value.found]_vars

\* delete_file has returned after its first call timed out: the second call
\* was made and the node it cleaned is reported
C36_Witness ==
    /\ ret.op = "delete_file"
    /\ ret.status = "returned"
    /\ Len(ret.outcomes) = 2
    /\ ret.outcomes[1][2] = "failed"
    /\ ret.outcomes[2][2] = "ok"
    /\ ret.nodes_cleaned = <<ret.outcomes[2][1]>>

\* C37: registry operations do not interleave partial writes. Every change of
\* the registry is the whole effect of one sweep, one heartbeat or one
\* registration on the rows as they were, and no node is inactive with a last
\* heartbeat newer than the cutoff of the sweep that deactivated it.
C37_RegistrySerial ==
    /\ [](\A n \in DOMAIN storage_nodes :
            ~storage_nodes[n].is_active => Age(n) > heartbeat_timeout)
    /\ [][storage_nodes' # storage_nodes =>
            \/ storage_nodes' =
                  [n \in DOMAIN storage_nodes |->
                      IF storage_nodes[n].is_active /\ Overdue(n)
                      THEN [storage_nodes[n] EXCEPT !.is_active = FALSE]
                      ELSE storage_nodes[n]]
            \/ \E n \in DOMAIN storage_nodes :
                  storage_nodes' = [storage_nodes EXCEPT
                      ![n] = [@ EXCEPT !.is_active = TRUE, !.last_heartbeat = now]]
            \/ \E n \in Nodes :
                  /\ DOMAIN storage_nodes' = DOMAIN storage_nodes \cup {n}
                  /\ \A m \in DOMAIN storage_nodes \ {n} :
                        storage_nodes'[m] = storage_nodes[m]
                  /\ storage_nodes'[n].is_active
                  /\ storage_nodes'[n].last_heartbeat = now
                  /\ storage_nodes'[n].url = my_node_url(n)
                  /\ storage_nodes'[n].capacity = NodeCapacity]_vars

\* at one instant a node past the timeout has sent its heartbeat and then a
\* sweep has run: the sweep has marked another node and left this one active
C37_Witness ==
    /\ ret.op = "health"
    /\ ret.report.stale_nodes # {}
    /\ now > heartbeat_timeout
    /\ \E n \in DOMAIN storage_nodes :
          /\ storage_nodes[n].is_active
          /\ storage_nodes[n].last_heartbeat = now

\* the payload and the sidecar of file_id on the agent are both there, the
\* sidecar holding the size and digest of the payload, or both absent
Consistent(file_id) ==
    /\ file_id \in DOMAIN disk[my_node_id] <=> file_id \in DOMAIN sidecar[my_node_id]
    /\ file_id \in DOMAIN disk[my_node_id] \cap DOMAIN sidecar[my_node_id] =>
          sidecar[my_node_id][file_id] =
              [file_id |-> file_id, size |-> Len(disk[my_node_id][file_id]),
               checksum |-> sha256(disk[my_node_id][file_id])]

\* the entries of a listing that name file_id
EntriesOf(listing, file_id) == {f \in DOMAIN listing : listing[f].file_id = file_id}

C39_UsedSpaceIsPayloadBytes ==
    ret.op = "health_endpoint" =>
        ret.used_space = TotalSize(PayloadSizes(disk, my_node_id))

\* C40: the response-time window holds at most 100 samples, the most recent
\* positive ones in arrival order; a call with type upload, download or delete
\* increments that one counter by 1 and a call with another type none.
C40_MetricsWindow ==
    /\ [](Len(metrics.response_times) <= WindowSize)
    /\ [][\A operation_type \in OperationTypes, response_time_ms \in SampleTimes :
            RecordOperation(operation_type, response_time_ms) =>
                LET arrived == IF response_time_ms > 0
                               THEN Append(metrics.response_times, response_time_ms)
                               ELSE metrics.response_times
                    dropped == IF Len(arrived) > WindowSize
                               THEN Len(arrived) - WindowSize ELSE 0
                IN  /\ metrics'.response_times =
                          [i \in 1..(Len(arrived) - dropped) |-> arrived[i + dropped]]
                    /\ metrics'.upload_ops_count = metrics.upload_ops_count
                          + (IF operation_type = "upload" THEN 1 ELSE 0)
                    /\ metrics'.download_ops_count = metrics.download_ops_count
                          + (IF operation_type = "download" THEN 1 ELSE 0)
                    /\ metrics'.delete_ops_count = metrics.delete_ops_count
                          + (IF operation_type = "delete" THEN 1 ELSE 0)]_vars

\* a sample has arrived at a full window: the oldest sample is gone and the
\* new one is the last
C40_Witness ==
    /\ ret.op = "record_operation"
    /\ Len(ret.before.response_times) = WindowSize
    /\ ret.response_time_ms > 0
    /\ Len(metrics.response_times) = WindowSize
    /\ metrics.response_times[WindowSize] = ret.response_time_ms
    /\ metrics.response_times[1] = ret.before.response_times[2]

====
